---- MODULE Spec2Model ----
(***************************************************************************)
(* A model of oc2pg, the one-shot Oracle -> PostgreSQL migration tool.     *)
(*                                                                         *)
(*   - NameMapper (ddl_emit.py): the identifier registry.                  *)
(*   - compose_plan and the emit_* functions (ddl_emit.py): the DDL plan.  *)
(*   - DataLoader (data_loader.py): the table loader and its worker pool.  *)
(*   - apply_statements (apply_ddl.py): the DDL applier.                   *)
(*   - migrate (cli.py): the steps of a run and its exit status.           *)
(*   - map (type_map.py): the type map.                                    *)
(*                                                                         *)
(* Text is modelled as a sequence of atoms.  An atom is a one-character    *)
(* string, or, inside DDL statements, a fixed piece of statement text      *)
(* such as "ALTER TABLE ".  Identifiers are sequences of one-character     *)
(* atoms, so that length, slicing and character classes are computed as    *)
(* the code computes them.                                                 *)
(***************************************************************************)
EXTENDS Integers, Sequences, FiniteSets, TLC

VARIABLES
    \* ---- NameMapper under test (one instance)
    nm,         \* [map, used]: self.map and self.used
    calls,      \* the pg_ident calls made so far: <<[arg, ret], ...>>
    \* ---- planning (two independent runs over one source state)
    src,        \* the source state handed to compose_plan
    pnm,        \* run -> the run's NameMapper
    parts,      \* run -> the statements emitted so far (compose_plan's parts)
    plan,       \* run -> [returned, text]: what compose_plan returned
    \* ---- data loader
    cfg,        \* [par, batch]: copy_parallelism, copy_batch_rows
    specs,      \* the TableSpec list handed to load_schema
    lpc,        \* the load_schema call: "running" | "returned"
    st,         \* table -> the state of its load_table call
    stats,      \* load_schema's stats: table name -> stats dict
    files,      \* the output directory: path -> file content
    encoded,    \* the row lists handed to _rows_to_csv_bytes so far (a set)
    \* ---- DDL applier
    ap,         \* the apply_statements call: statements, position, log, first_error
    \* ---- the migrate command
    mg,         \* the migrate run: discovery result, step reached, exit status
    \* ---- functions evaluated on their own
    fcall       \* [fn, arg, ret]: a call of a pure function and what it returned

nmVars   == <<nm, calls>>
planVars == <<src, pnm, parts, plan>>
loadVars == <<cfg, specs, lpc, st, stats, files, encoded>>
runVars  == <<ap, mg, fcall>>
vars     == <<nm, calls, src, pnm, parts, plan,
              cfg, specs, lpc, st, stats, files, encoded,
              ap, mg, fcall>>

(***************************************************************************)
(* Characters                                                              *)
(***************************************************************************)
UpperSeq == <<"A","B","C","D","E","F","G","H","I","J","K","L","M",
              "N","O","P","Q","R","S","T","U","V","W","X","Y","Z">>
LowerSeq == <<"a","b","c","d","e","f","g","h","i","j","k","l","m",
              "n","o","p","q","r","s","t","u","v","w","x","y","z">>
DigitSeq == <<"0","1","2","3","4","5","6","7","8","9">>
HexSeq   == <<"0","1","2","3","4","5","6","7","8","9","a","b","c","d","e","f">>
OtherSeq == <<"_"," ","#","$","-",".","\"",";","'">>
CharSeq  == LowerSeq \o UpperSeq \o DigitSeq \o OtherSeq

Range(s) == {s[i] : i \in DOMAIN s}

LowerChars == Range(LowerSeq)
DigitChars == Range(DigitSeq)
SpaceChars == {" ", "\n"}

Chars == Range(CharSeq)

\* str.lower(), per character
LowerOf ==
    [c \in Chars |->
        IF \E i \in DOMAIN UpperSeq : UpperSeq[i] = c
        THEN LowerSeq[CHOOSE i \in DOMAIN UpperSeq : UpperSeq[i] = c]
        ELSE c]

ToLower(c) == LowerOf[c]

\* the character class [a-z0-9_]
IdentChars == LowerChars \cup DigitChars \cup {"_"}

IsIdentChar(c) == c \in IdentChars

\* the character class [a-z_]
IdentStartChars == LowerChars \cup {"_"}

IsIdentStart(c) == c \in IdentStartChars

\* the code point of a character (its place in CharSeq)
OrdOf == [c \in Chars |-> CHOOSE i \in DOMAIN CharSeq : CharSeq[i] = c]

Ord(c) == OrdOf[c]

\* str.strip(): leading and trailing whitespace removed
RECURSIVE LStrip(_)
LStrip(s) ==
    IF s # <<>> /\ Head(s) \in SpaceChars THEN LStrip(Tail(s)) ELSE s

RECURSIVE RStrip(_)
RStrip(s) ==
    IF s # <<>> /\ s[Len(s)] \in SpaceChars
    THEN RStrip(SubSeq(s, 1, Len(s) - 1))
    ELSE s

Strip(s) == RStrip(LStrip(s))

\* s[:k] of Python, for k >= 0
Prefix(s, k) == SubSeq(s, 1, IF k < Len(s) THEN k ELSE Len(s))

Max(a, b) == IF a >= b THEN a ELSE b

\* c repeated k times
Rep(c, k) == [i \in 1..k |-> c]

\* str(i) for a natural number
RECURSIVE IntStr(_)
IntStr(i) ==
    IF i < 10 THEN <<DigitSeq[i + 1]>>
    ELSE IntStr(i \div 10) \o <<DigitSeq[(i % 10) + 1]>>

(***************************************************************************)
(* NameMapper                                                              *)
(***************************************************************************)
PG_MAX_IDENT == 63

\* hexdigest of a 4-byte digest: 8 hexadecimal characters, a fixed function
\* of the text.  Digit k is a position-weighted checksum of the characters
\* n[lo..hi], summed by halves.
RECURSIVE DigestSum(_, _, _, _)
DigestSum(n, k, lo, hi) ==
    IF lo > hi THEN 0
    ELSE IF lo = hi THEN Ord(n[lo]) * (((lo * k) % 11) + k)
    ELSE DigestSum(n, k, lo, (lo + hi) \div 2)
         + DigestSum(n, k, ((lo + hi) \div 2) + 1, hi)

Blake2bHex(n) == [k \in 1..8 |-> HexSeq[(DigestSum(n, k, 1, Len(n)) % 16) + 1]]

\* NameMapper.__init__
NewNameMapper == [map |-> <<>>, used |-> <<>>]

\* re.sub(r'[^a-z0-9_]', '_', c.lower()), per character
NormChar(c) == IF IsIdentChar(ToLower(c)) THEN ToLower(c) ELSE "_"

\* the prefix rule of _normalize: a leading "_" unless n starts with [a-z_]
WithStart(n) == IF n = <<>> \/ ~IsIdentStart(n[1]) THEN <<"_">> \o n ELSE n

\* lower() and re.sub of _normalize on stripped text
LowerSub(s) == [i \in DOMAIN s |-> NormChar(s[i])]

\* NameMapper._normalize
Normalize(name) == WithStart(LowerSub(Strip(name)))

\* NameMapper._shorten, a mutant: the separator is not counted in `keep`
ShortenNoSeparatorRoom(n) ==
    IF Len(n) <= PG_MAX_IDENT THEN n
    ELSE Prefix(n, PG_MAX_IDENT - Len(Blake2bHex(n))) \o <<"_">> \o Blake2bHex(n)

\* NameMapper._shorten
Shorten(n) ==
    IF Len(n) <= PG_MAX_IDENT THEN n
    ELSE LET h    == Blake2bHex(n)
             keep == PG_MAX_IDENT - 1 - Len(h)
         IN  Prefix(n, keep) \o <<"_">> \o h

\* the guard of pg_ident's while loop, a mutant: the owner test is inverted
TakenByOtherInverted(used, n, original) ==
    n \in DOMAIN used /\ used[n] = original

\* the guard of pg_ident's while loop: n is held by another source identifier
TakenByOther(used, n, original) ==
    n \in DOMAIN used /\ used[n] # original

\* pg_ident's while loop: the first free name among base, base_1, base_2, ...
RECURSIVE Disambiguate(_, _, _, _, _)
Disambiguate(used, original, base, n, i) ==
    IF TakenByOther(used, n, original)
    THEN LET suffix == <<"_">> \o IntStr(i)
         IN  Disambiguate(used, original, base,
                 Shorten(Prefix(base, Max(0, PG_MAX_IDENT - Len(suffix))) \o suffix),
                 i + 1)
    ELSE n

\* pg_ident's result, a mutant: no collision loop
PgIdentNameNoLoop(m, original) ==
    IF original \in DOMAIN m.map THEN m.map[original]
    ELSE Shorten(Normalize(original))

\* the identifier pg_ident returns for `original` in mapper m
PgIdentName(m, original) ==
    IF original \in DOMAIN m.map THEN m.map[original]
    ELSE LET n == Shorten(Normalize(original))
         IN  Disambiguate(m.used, original, n, n, 1)

\* f with x mapped to y
Put(f, x, y) == [k \in DOMAIN f \cup {x} |-> IF k = x THEN y ELSE f[k]]

\* the mapper after pg_ident(original)
PgIdent(m, original) ==
    IF original \in DOMAIN m.map THEN m
    ELSE LET n == PgIdentName(m, original)
         IN  [map |-> Put(m.map, original, n), used |-> Put(m.used, n, original)]

(***************************************************************************)
(* Quoting and qualified names                                             *)
(***************************************************************************)
\* _RESERVED
Reserved ==
    { <<"o","f","f","s","e","t">>,
      <<"l","i","m","i","t">>,
      <<"u","s","e","r">>,
      <<"s","c","h","e","m","a">>,
      <<"t","a","b","l","e">>,
      <<"c","o","l","u","m","n">>,
      <<"o","r","d","e","r">>,
      <<"g","r","o","u","p">>,
      <<"p","r","i","m","a","r","y">>,
      <<"f","o","r","e","i","g","n">>,
      <<"u","n","i","q","u","e">>,
      <<"c","o","n","s","t","r","a","i","n","t">>,
      <<"r","e","f","e","r","e","n","c","e","s">>,
      <<"t","i","m","e","s","t","a","m","p">>,
      <<"t","y","p","e">>,
      <<"n","a","m","e">>,
      <<"v","a","l","u","e">>,
      <<"v","a","l","u","e","s">> }

\* _NEEDS_QUOTE.search(ident): [^a-z0-9_] | ^[^a-z_] | ^[0-9]
NeedsQuoteRe(ident) ==
    \/ \E i \in DOMAIN ident : ~IsIdentChar(ident[i])
    \/ ~IsIdentStart(ident[1])
    \/ ident[1] \in DigitChars

\* ident.replace('"', '""'), by halves
RECURSIVE DoubleQuotes(_)
DoubleQuotes(s) ==
    IF Len(s) = 0 THEN s
    ELSE IF Len(s) = 1 THEN (IF s[1] = "\"" THEN <<"\"", "\"">> ELSE s)
    ELSE DoubleQuotes(SubSeq(s, 1, Len(s) \div 2))
         \o DoubleQuotes(SubSeq(s, (Len(s) \div 2) + 1, Len(s)))

\* NameMapper.quote
Quote(ident) ==
    IF ident = <<>> THEN <<"\"", "\"">>
    ELSE IF NeedsQuoteRe(ident) \/ [i \in DOMAIN ident |-> ToLower(ident[i])] \in Reserved
    THEN <<"\"">> \o DoubleQuotes(ident) \o <<"\"">>
    ELSE ident

\* the mapper after pg_ident on each identifier of ids, in order
RECURSIVE RegisterAll(_, _)
RegisterAll(m, ids) ==
    IF ids = <<>> THEN m ELSE RegisterAll(PgIdent(m, Head(ids)), Tail(ids))

\* nm.quote(nm.pg_ident(x)) in a mapper that has x registered
QIdent(m, x) == Quote(m.map[x])

\* the pg_ident calls of _table_ident, in call order
TableIdentIds(table_name, schema) ==
    IF schema # <<>> THEN <<table_name, schema>> ELSE <<table_name>>

\* _table_ident
TableIdent(m, table_name, schema) ==
    IF schema # <<>>
    THEN QIdent(m, schema) \o <<".">> \o QIdent(m, table_name)
    ELSE QIdent(m, table_name)

\* sep.join(texts)
RECURSIVE Join(_, _)
Join(sep, texts) ==
    IF texts = <<>> THEN <<>>
    ELSE IF Len(texts) = 1 THEN texts[1]
    ELSE texts[1] \o sep \o Join(sep, Tail(texts))

\* ", ".join(nm.quote(nm.pg_ident(c)) for c in cols)
QIdentList(m, cols) == Join(<<", ">>, [i \in DOMAIN cols |-> QIdent(m, cols[i])])

(***************************************************************************)
(* Type map (type_map.py) and column definitions                           *)
(***************************************************************************)
\* An optional value is <<>> (None) or <<v>>.  An integer is its decimal text.

\* type_map.dict
TypeDict ==
    [ NUMBER |-> "numeric", VARCHAR2 |-> "varchar", NVARCHAR2 |-> "char",
      CHAR |-> "char", NCHAR |-> "char", DATE |-> "timestamp(0)",
      INTEGER |-> "integer", INT |-> "integer", SMALLINT |-> "smallint",
      DOUBLE |-> "double precision", LONG |-> "text",
      FLOAT |-> "double precision", BINARY_FLOAT |-> "real",
      BINARY_DOUBLE |-> "real", RAW |-> "bytea", TIMESTAMP |-> "timestamp",
      BLOB |-> "bytea", CLOB |-> "text", NCLOB |-> "text", BFILE |-> "bytea",
      ROWID |-> "ctid", UROWID |-> "UUID", CHARACTER |-> "char",
      XMLType |-> "xml", SDO_Geometry |-> "geometry",
      SDO_Topo_Geometry |-> "geometry", SDO_GeoRaster |-> "geometry",
      BOOLEAN |-> "boolean", JSON |-> "jsonb" ]

\* an optional integer inside an f-string: its digits, or the text None
Fmt(opt) == IF opt = <<>> THEN <<"None">> ELSE opt[1]

\* type_map.map: <<>> for an unknown type, else <<text>>
MapType(ora_type, precision, scale) ==
    IF ora_type \notin DOMAIN TypeDict THEN <<>>
    ELSE IF precision # <<>> /\ scale # <<>>
    THEN << <<TypeDict[ora_type], "(">> \o Fmt(precision) \o <<",">> \o Fmt(scale) \o <<")">> >>
    ELSE IF scale # <<>>
    THEN << <<TypeDict[ora_type], "(">> \o Fmt(precision) \o <<")">> >>
    ELSE << <<TypeDict[ora_type]>> >>

\* re.sub(r'\(\s*None\s*(?:,\s*None\s*)?\)', '', pg_type)
RECURSIVE ScrubNone(_)
ScrubNone(x) ==
    IF x = <<>> THEN x
    ELSE IF Len(x) >= 5 /\ SubSeq(x, 1, 5) = <<"(", "None", ",", "None", ")">>
    THEN ScrubNone(SubSeq(x, 6, Len(x)))
    ELSE IF Len(x) >= 3 /\ SubSeq(x, 1, 3) = <<"(", "None", ")">>
    THEN ScrubNone(SubSeq(x, 4, Len(x)))
    ELSE <<Head(x)>> \o ScrubNone(Tail(x))

\* re.sub(r'\(\s*\)$', '', pg_type)
ScrubEmptyParens(x) ==
    IF Len(x) >= 2 /\ SubSeq(x, Len(x) - 1, Len(x)) = <<"(", ")">>
    THEN SubSeq(x, 1, Len(x) - 2)
    ELSE x

\* the pg_type of _column_def: the mapped type, or text, then the scrubs
ColumnType(col) ==
    LET mapped == MapType(col.data_type, col.data_precision, col.data_scale)
        pg     == IF mapped = <<>> THEN <<"text">> ELSE mapped[1]
        noctid == IF pg = <<"ctid">> THEN <<"text">> ELSE pg
    IN  ScrubEmptyParens(ScrubNone(noctid))

\* _column_def
ColumnDef(m, col) ==
    QIdent(m, col.column_name) \o <<" ">> \o ColumnType(col)
    \o (IF col.data_default # <<>> THEN <<" ", "DEFAULT", " ">> \o col.data_default ELSE <<>>)
    \o (IF ~col.nullable THEN <<" ", "NOT NULL">> ELSE <<>>)

(***************************************************************************)
(* Statement emitters.  For each statement: the pg_ident calls it makes,   *)
(* in call order, and its text in the mapper that has made them.           *)
(***************************************************************************)
\* emit_create_table: the pg_ident calls
CreateTableIds(tbl, schema) ==
    TableIdentIds(tbl.table_name, schema)
    \o [i \in DOMAIN tbl.columns |-> tbl.columns[i].column_name]
    \o tbl.pkeys

\* emit_create_table
EmitCreateTable(m, tbl, schema) ==
    LET lines == [i \in DOMAIN tbl.columns |-> ColumnDef(m, tbl.columns[i])]
                 \o (IF tbl.pkeys # <<>>
                     THEN << <<"PRIMARY KEY (">> \o QIdentList(m, tbl.pkeys) \o <<")">> >>
                     ELSE <<>>)
    IN  <<"CREATE TABLE IF NOT EXISTS ">> \o TableIdent(m, tbl.table_name, schema)
        \o <<" (\n  ">> \o Join(<<",\n  ">>, lines) \o <<"\n)", ";">>

\* (fk.get("delete_rule") or "NO ACTION").upper()
DeleteRule(fk) ==
    IF fk.delete_rule = "" THEN "NO ACTION"
    ELSE IF fk.delete_rule = "cascade" THEN "CASCADE"
    ELSE IF fk.delete_rule = "set null" THEN "SET NULL"
    ELSE IF fk.delete_rule = "no action" THEN "NO ACTION"
    ELSE fk.delete_rule

\* emit_constraints, one fk: the pg_ident calls
ConstraintIds(fk, schema) ==
    TableIdentIds(fk.table_name, schema) \o TableIdentIds(fk.r_table_name, schema)
    \o <<fk.constraint_name>> \o fk.columns \o fk.r_columns

\* emit_constraints, one fk
EmitConstraint(m, fk, schema, deferrable) ==
    <<"ALTER TABLE ">> \o TableIdent(m, fk.table_name, schema)
    \o <<" ADD CONSTRAINT ">> \o QIdent(m, fk.constraint_name)
    \o <<" FOREIGN KEY (">> \o QIdentList(m, fk.columns)
    \o <<") REFERENCES ">> \o TableIdent(m, fk.r_table_name, schema)
    \o <<" (">> \o QIdentList(m, fk.r_columns) \o <<")">>
    \o (IF DeleteRule(fk) # "NO ACTION" THEN <<" ON DELETE ", DeleteRule(fk)>> ELSE <<>>)
    \o (IF deferrable THEN <<" DEFERRABLE INITIALLY DEFERRED">> ELSE <<>>)
    \o <<";">>

\* emit_indexes, one index: the pg_ident calls
IndexIds(ix, schema) ==
    <<ix.index_name>> \o TableIdentIds(ix.table_name, schema) \o ix.columns

\* emit_indexes, one index
EmitIndex(m, ix, schema) ==
    <<"CREATE ">> \o (IF ix.uniqueness = "UNIQUE" THEN <<"UNIQUE ">> ELSE <<>>)
    \o <<"INDEX IF NOT EXISTS ">> \o QIdent(m, ix.index_name)
    \o <<" ON ">> \o TableIdent(m, ix.table_name, schema)
    \o <<" (">> \o QIdentList(m, ix.columns) \o <<")", ";">>

BIGINT_MAX == <<"9","2","2","3","3","7","2","0","3","6","8","5","4","7","7","5","8","0","7">>

\* int(a) <= int(b) for decimal texts (a may carry a leading "-", b may not)
RECURSIVE DigitsLeq(_, _)
DigitsLeq(a, b) ==
    IF a = <<>> THEN TRUE
    ELSE IF Ord(a[1]) < Ord(b[1]) THEN TRUE
    ELSE IF Ord(a[1]) > Ord(b[1]) THEN FALSE
    ELSE DigitsLeq(Tail(a), Tail(b))

\* int(a) <= int(b), a mutant: only the numbers of digits are compared
IntLeqByLength(a, b) ==
    \/ a[1] = "-"
    \/ Len(a) <= Len(b)

IntLeq(a, b) ==
    \/ a[1] = "-"
    \/ Len(a) < Len(b)
    \/ Len(a) = Len(b) /\ DigitsLeq(a, b)

\* int(cache) < 1
BelowOne(a) == a[1] = "-" \/ a = <<"0">>

\* emit_sequences, one sequence: the pg_ident calls
SequenceIds(sq, schema) ==
    IF schema # <<>> THEN <<sq.sequence_name, schema>> ELSE <<sq.sequence_name>>

\* emit_sequences, one sequence
EmitSequence(m, sq, schema) ==
    LET sname == QIdent(m, sq.sequence_name)
        fq    == IF schema = <<>> THEN sname ELSE QIdent(m, schema) \o <<".">> \o sname
    IN  <<"CREATE SEQUENCE IF NOT EXISTS ">> \o fq
        \o (IF sq.increment_by # <<>>
            THEN <<" ", "INCREMENT BY ">> \o sq.increment_by[1] ELSE <<>>)
        \o (IF sq.min_value # <<>>
            THEN <<" ", "MINVALUE ">> \o sq.min_value[1] ELSE <<>>)
        \o (IF sq.max_value # <<>> /\ IntLeq(sq.max_value[1], BIGINT_MAX)
            THEN <<" ", "MAXVALUE ">> \o sq.max_value[1] ELSE <<>>)
        \o <<" ", "CACHE ">>
        \o (IF sq.cache_size = <<>> \/ BelowOne(sq.cache_size[1])
            THEN <<"1">> ELSE sq.cache_size[1])
        \o <<" ">> \o (IF sq.cycle_flag = "Y" THEN <<"CYCLE">> ELSE <<"NO CYCLE">>)
        \o <<";">>

\* the variables of a part of the program that a specification does not run
PlanIdle ==
    /\ src = <<>>
    /\ pnm = <<>>
    /\ parts = <<>>
    /\ plan = <<>>

LoadIdle ==
    /\ cfg = <<>>
    /\ specs = <<>>
    /\ lpc = "idle"
    /\ st = <<>>
    /\ stats = <<>>
    /\ files = <<>>
    /\ encoded = <<>>

RunIdle ==
    /\ ap = <<>>
    /\ mg = <<>>
    /\ fcall = <<>>

NamesIdle ==
    /\ nm = NewNameMapper
    /\ calls = <<>>

(***************************************************************************)
(* compose_plan                                                            *)
(***************************************************************************)
\* the entities of source state s in the order compose_plan emits them:
\* sequences, tables, foreign keys, indexes, each list in its own order.
\* A mutant: indexes are emitted before foreign keys.
PlanOrderIndexesFirst(s) ==
    [i \in DOMAIN s.seqs |-> [kind |-> "seq", i |-> i]]
    \o [i \in DOMAIN s.tables |-> [kind |-> "tab", i |-> i]]
    \o [i \in DOMAIN s.idxs |-> [kind |-> "idx", i |-> i]]
    \o [i \in DOMAIN s.fks |-> [kind |-> "fk", i |-> i]]

PlanOrder(s) ==
    [i \in DOMAIN s.seqs |-> [kind |-> "seq", i |-> i]]
    \o [i \in DOMAIN s.tables |-> [kind |-> "tab", i |-> i]]
    \o [i \in DOMAIN s.fks |-> [kind |-> "fk", i |-> i]]
    \o [i \in DOMAIN s.idxs |-> [kind |-> "idx", i |-> i]]

\* the pg_ident calls made while emitting the statement of entity e
StmtIds(s, e) ==
    IF e.kind = "seq" THEN SequenceIds(s.seqs[e.i], s.schema)
    ELSE IF e.kind = "tab" THEN CreateTableIds(s.tables[e.i], s.schema)
    ELSE IF e.kind = "fk" THEN ConstraintIds(s.fks[e.i], s.schema)
    ELSE IndexIds(s.idxs[e.i], s.schema)

\* the statement of entity e; compose_plan calls emit_constraints without
\* `deferrable`, which defaults to True
StmtText(m, s, e) ==
    IF e.kind = "seq" THEN EmitSequence(m, s.seqs[e.i], s.schema)
    ELSE IF e.kind = "tab" THEN EmitCreateTable(m, s.tables[e.i], s.schema)
    ELSE IF e.kind = "fk" THEN EmitConstraint(m, s.fks[e.i], s.schema, TRUE)
    ELSE EmitIndex(m, s.idxs[e.i], s.schema)

Runs == {1, 2}

\* run r emits the statement of the k-th entity
EmitEntity(r, k) ==
    LET e  == PlanOrder(src)[k]
        m2 == RegisterAll(pnm[r], StmtIds(src, e))
    IN  /\ pnm' = [pnm EXCEPT ![r] = m2]
        /\ parts' = [parts EXCEPT ![r] = Append(@, StmtText(m2, src, e))]
        /\ UNCHANGED <<src, plan, nmVars, loadVars, runVars>>

\* a mutant of EmitNext: the entities are visited in no fixed order
EmitNextUnordered(r) ==
    /\ ~plan[r].returned
    /\ Len(parts[r]) < Len(PlanOrder(src))
    /\ \E k \in DOMAIN PlanOrder(src) : EmitEntity(r, k)

\* compose_plan of run r emits its next statement
EmitNext(r) ==
    /\ ~plan[r].returned
    /\ Len(parts[r]) < Len(PlanOrder(src))
    /\ EmitEntity(r, Len(parts[r]) + 1)

\* compose_plan of run r returns "\n".join(parts)
ReturnPlan(r) ==
    /\ ~plan[r].returned
    /\ Len(parts[r]) = Len(PlanOrder(src))
    /\ plan' = [plan EXCEPT ![r] = [returned |-> TRUE, text |-> Join(<<"\n">>, parts[r])]]
    /\ UNCHANGED <<src, pnm, parts, nmVars, loadVars, runVars>>

(***************************************************************************)
(* Source states handed to compose_plan                                    *)
(***************************************************************************)
MaxPerPhase == 2

SchemaPublic == <<"p","u","b","l","i","c">>

SeqA == [ sequence_name |-> <<"S","E","Q"," ","A">>, increment_by |-> << <<"1">> >>, min_value |-> <<>>,
          max_value |-> << <<"1","0","0","0","0","0","0","0","0","0","0","0","0","0","0","0","0","0","0","0","0","0","0","0","0","0","0","0","0">> >>, cache_size |-> << <<"0">> >>, cycle_flag |-> "Y" ]
SeqB == [ sequence_name |-> <<"s","e","q","_","a">>, increment_by |-> <<>>, min_value |-> << <<"1">> >>,
          max_value |-> << BIGINT_MAX >>, cache_size |-> << <<"2","0">> >>, cycle_flag |-> "N" ]
SeqC == [ sequence_name |-> <<"O","R","D","E","R">>, increment_by |-> << <<"-","1">> >>, min_value |-> <<>>,
          max_value |-> <<>>, cache_size |-> <<>>, cycle_flag |-> "N" ]

ColId     == [ column_name |-> <<"I","D">>, data_type |-> "NUMBER", data_precision |-> << <<"1","0">> >>,
               data_scale |-> << <<"0">> >>, nullable |-> FALSE, data_default |-> <<>> ]
ColCustId == [ column_name |-> <<"C","U","S","T","_","I","D">>, data_type |-> "NUMBER", data_precision |-> <<>>,
               data_scale |-> << <<"0">> >>, nullable |-> TRUE, data_default |-> <<>> ]
ColCustSp == [ column_name |-> <<"C","u","s","t"," ","I","d">>, data_type |-> "ROWID", data_precision |-> <<>>,
               data_scale |-> <<>>, nullable |-> TRUE, data_default |-> <<"'","a",";","b","'">> ]
ColName   == [ column_name |-> <<"N","A","M","E">>, data_type |-> "VARCHAR2", data_precision |-> << <<"5","0">> >>,
               data_scale |-> <<>>, nullable |-> TRUE, data_default |-> <<>> ]
ColGeo    == [ column_name |-> <<"G","E","O">>, data_type |-> "SDO_POINT", data_precision |-> <<>>,
               data_scale |-> <<>>, nullable |-> FALSE, data_default |-> <<>> ]

TabOrders    == [ table_name |-> <<"O","R","D","E","R","S">>, columns |-> <<ColId, ColCustId, ColCustSp>>,
                  pkeys |-> <<<<"I","D">>>> ]
TabCustomers == [ table_name |-> <<"C","U","S","T","O","M","E","R","S">>, columns |-> <<ColId, ColName>>, pkeys |-> <<>> ]
TabOrder     == [ table_name |-> <<"O","R","D","E","R">>, columns |-> <<ColGeo>>, pkeys |-> <<<<"G","E","O">>>> ]

FkA == [ constraint_name |-> <<"F","K","_","O","R","D">>, table_name |-> <<"O","R","D","E","R","S">>, columns |-> <<<<"C","U","S","T","_","I","D">>>>,
         r_table_name |-> <<"C","U","S","T","O","M","E","R","S">>, r_columns |-> <<<<"I","D">>>>, delete_rule |-> "CASCADE" ]
FkB == [ constraint_name |-> <<"F","K"," ","O","R","D">>, table_name |-> <<"O","R","D","E","R","S">>, columns |-> <<<<"C","u","s","t"," ","I","d">>>>,
         r_table_name |-> <<"C","U","S","T","O","M","E","R","S">>, r_columns |-> <<<<"I","D">>>>, delete_rule |-> "" ]
FkC == [ constraint_name |-> <<"f","k","_","o","r","d">>, table_name |-> <<"O","R","D","E","R">>, columns |-> <<<<"G","E","O">>>>,
         r_table_name |-> <<"O","R","D","E","R","S">>, r_columns |-> <<<<"I","D">>>>, delete_rule |-> "set null" ]

IxA == [ index_name |-> <<"I","X","_","O","R","D">>, table_name |-> <<"O","R","D","E","R","S">>, columns |-> <<<<"C","U","S","T","_","I","D">>, <<"I","D">>>>,
         uniqueness |-> "UNIQUE" ]
IxB == [ index_name |-> <<"i","x","_","o","r","d">>, table_name |-> <<"C","U","S","T","O","M","E","R","S">>, columns |-> <<<<"N","A","M","E">>>>,
         uniqueness |-> "NONUNIQUE" ]
IxC == [ index_name |-> <<"O","R","D","E","R","S">>, table_name |-> <<"O","R","D","E","R">>, columns |-> <<<<"G","E","O">>>>,
         uniqueness |-> "NONUNIQUE" ]

\* the entity lists offered for one phase: at most MaxPerPhase of a, b, c
Lists(a, b, c) ==
    { l \in { <<>>, <<a>>, <<a, b>>, <<b, a>>, <<b, c, a>>, <<c, a, b, c>> } :
        Len(l) <= MaxPerPhase }

SourceStates ==
    [ schema : {SchemaPublic, <<>>},
      seqs   : Lists(SeqA, SeqB, SeqC),
      tables : Lists(TabOrders, TabCustomers, TabOrder),
      fks    : Lists(FkA, FkB, FkC),
      idxs   : Lists(IxA, IxB, IxC) ]

InitPlan ==
    /\ src \in SourceStates
    /\ pnm = [r \in Runs |-> NewNameMapper]
    /\ parts = [r \in Runs |-> <<>>]
    /\ plan = [r \in Runs |-> [returned |-> FALSE, text |-> <<>>]]
    /\ NamesIdle /\ LoadIdle /\ RunIdle

NextPlan == \E r \in Runs : EmitNext(r) \/ ReturnPlan(r)

\* two runs of compose_plan over one source state, each with its own mapper
SpecPlan == InitPlan /\ [][NextPlan]_vars

(***************************************************************************)
(* Claims about the plan (checked under SpecPlan)                          *)
(***************************************************************************)
\* the places in a plan text where a statement starts
StmtStarts(text) == {i \in DOMAIN text : i = 1 \/ text[i - 1] = "\n"}

\* the phase of the statement that starts at place i of a plan text, read
\* off its leading words: 1 CREATE SEQUENCE, 2 CREATE TABLE,
\* 3 ALTER TABLE ... FOREIGN KEY, 4 CREATE [UNIQUE] INDEX, 0 anything else
PhaseAt(text, i) ==
    IF text[i] = "CREATE SEQUENCE IF NOT EXISTS " THEN 1
    ELSE IF text[i] = "CREATE TABLE IF NOT EXISTS " THEN 2
    ELSE IF text[i] = "ALTER TABLE "
            /\ \E j \in DOMAIN text :
                  /\ j > i /\ text[j] = " FOREIGN KEY ("
                  /\ \A k \in (i + 1)..j : text[k] # "\n"
         THEN 3
    ELSE IF text[i] = "CREATE "
            /\ \/ text[i + 1] = "INDEX IF NOT EXISTS "
               \/ text[i + 1] = "UNIQUE " /\ text[i + 2] = "INDEX IF NOT EXISTS "
         THEN 4
    ELSE 0

\* C4: in every plan compose_plan returns, every statement is of one of the
\* four phases and the phases never go back: all CREATE SEQUENCE precede all
\* CREATE TABLE, which precede all ALTER TABLE ... FOREIGN KEY, which precede
\* all CREATE [UNIQUE] INDEX.
C4_PhaseOrder ==
    \A r \in Runs :
        plan[r].returned =>
            /\ \A i \in StmtStarts(plan[r].text) : PhaseAt(plan[r].text, i) # 0
            /\ \A i, j \in StmtStarts(plan[r].text) :
                  i < j => PhaseAt(plan[r].text, i) <= PhaseAt(plan[r].text, j)

\* C4 witness: a returned plan with two statements of each phase.
C4_Witness ==
    \E r \in Runs :
        /\ plan[r].returned
        /\ \A ph \in 1..4 :
              Cardinality({i \in StmtStarts(plan[r].text) :
                              PhaseAt(plan[r].text, i) = ph}) >= 2

\* s is a prefix of t
IsPrefix(s, t) == Len(s) <= Len(t) /\ SubSeq(t, 1, Len(s)) = s

MaxCalls == 4

\* Source identifiers offered to the mapper
IdOrderDetails  == <<"O","r","d","e","r"," ","D","e","t","a","i","l","s","#","1">>
IdOrderDetails2 == <<"O","R","D","E","R","_","D","E","T","A","I","L","S","_","1">>
IdAB            == <<"A"," ","B">>
IdAHashB        == <<" ","a","#","B"," ">>
Id_a_b          == <<"a","_","b">>
Id_a_b_1        == <<"a","_","b","_","1">>
IdEmpty         == <<>>
IdDigit         == <<"1","x">>
IdLongA         == Rep("x", 60) \o Rep("A", 10)
IdLongB         == Rep("x", 60) \o Rep("B", 10)
IdLen64         == Rep("y", 64)

SourceIds == { IdOrderDetails, IdOrderDetails2, IdAB, IdAHashB, Id_a_b, Id_a_b_1,
               IdEmpty, IdDigit, IdLongA, IdLongB, IdLen64 }

\* the identifiers returned so far
Returned == {calls[i].ret : i \in DOMAIN calls}

\* one call nm.pg_ident(x)
Call(x) ==
    /\ Len(calls) < MaxCalls
    /\ nm' = PgIdent(nm, x)
    /\ calls' = Append(calls, [arg |-> x, ret |-> nm'.map[x]])
    /\ UNCHANGED <<planVars, loadVars, runVars>>

\* pg_ident on a source identifier
Register == \E x \in SourceIds : Call(x)

\* pg_ident on an identifier the mapper returned earlier
ReRegister == \E t \in Returned : Call(t)

InitNames == NamesIdle /\ PlanIdle /\ LoadIdle /\ RunIdle

NextNames == Register \/ ReRegister

\* one NameMapper instance and every sequence of at most MaxCalls calls on it
SpecNames == InitNames /\ [][NextNames]_vars

(***************************************************************************)
(* Claims about the NameMapper (checked under SpecNames)                   *)
(***************************************************************************)

\* C1: in any sequence of pg_ident calls on one mapper the registry is a
\* stable injection: two calls return the same target identifier exactly
\* when they were given the same source identifier, and self.map holds
\* what the first call returned.
C1_StableInjection ==
    /\ \A i, j \in DOMAIN calls :
          (calls[i].arg = calls[j].arg) <=> (calls[i].ret = calls[j].ret)
    /\ \A i \in DOMAIN calls : nm.map[calls[i].arg] = calls[i].ret
    /\ \A x, y \in DOMAIN nm.map : x # y => nm.map[x] # nm.map[y]

\* C1 witness: two distinct source identifiers with the same normal form
\* were registered, and one of them was asked for again.
C1_Witness ==
    \E i, j, k \in DOMAIN calls :
        /\ i < j /\ j < k
        /\ calls[i].arg # calls[j].arg
        /\ Normalize(calls[i].arg) = Normalize(calls[j].arg)
        /\ calls[k].arg = calls[i].arg

\* C2: every identifier pg_ident returns has at most 63 characters.
C2_LengthBound ==
    \A i \in DOMAIN calls : Len(calls[i].ret) <= PG_MAX_IDENT

\* C2 witness: a name longer than 63 was truncated with a hash suffix and a
\* 63-character base then took a collision disambiguator.
C2_Witness ==
    \E i, j \in DOMAIN calls :
        /\ Len(Normalize(calls[i].arg)) > PG_MAX_IDENT
        /\ Len(calls[i].ret) = PG_MAX_IDENT
        /\ Len(Normalize(calls[j].arg)) = PG_MAX_IDENT
        /\ calls[j].ret # Shorten(Normalize(calls[j].arg))

\* C3 as stated: registering an identifier the mapper returned gives that
\* identifier back, pg_ident(pg_ident(x)) = pg_ident(x).
C3_IdempotentAsStated ==
    \A i, j \in DOMAIN calls :
        (i < j /\ calls[j].arg = calls[i].ret) => calls[j].ret = calls[i].ret

\* C3 amended: pg_ident(pg_ident(x)) = pg_ident(x) exactly when x is its own
\* target, pg_ident(x) = x. When normalisation, truncation or a disambiguator
\* changed x, its target is held by x, and registering the target as a source
\* returns another, disambiguated identifier.
C3_IdempotentOnFixpoints ==
    \A i, j \in DOMAIN calls :
        (i < j /\ calls[j].arg = calls[i].ret)
            => ((calls[j].ret = calls[i].ret) <=> (calls[i].arg = calls[i].ret))

\* C3 witness: a returned identifier that differs from its source was
\* registered again, and so was one that equals its source.
C3_Witness ==
    /\ \E i, j \in DOMAIN calls :
          i < j /\ calls[j].arg = calls[i].ret /\ calls[i].arg # calls[i].ret
    /\ \E i, j \in DOMAIN calls :
          i < j /\ calls[j].arg = calls[i].ret /\ calls[i].arg = calls[i].ret

(***************************************************************************)
(* DataLoader: CSV serialisation                                           *)
(***************************************************************************)
\* A source value is [t, v]: t its Python type, v its text (None: <<>>).
NULL_SENTINEL == <<"\\", "N">>

PyNone == [t |-> "none", v |-> <<>>]

\* a character str.encode("utf-8", "strict") rejects: a lone surrogate
Surrogate == "U+D800"

\* DataLoader._to_csv_field
ToCsvField(val) ==
    IF val.t = "none" THEN NULL_SENTINEL
    ELSE IF val.t = "bytes" THEN <<"\\", "x">> \o val.v
    ELSE val.v

\* csv.writer with QUOTE_MINIMAL: a field is quoted when it holds the
\* delimiter, the quote character or a line break, or is the empty only field
MustQuote(field, nfields) ==
    \/ \E i \in DOMAIN field : field[i] \in {",", "\"", "\n"}
    \/ field = <<>> /\ nfields = 1

\* one field as csv.writer writes it (doublequote=True)
CsvField(field, nfields) ==
    IF MustQuote(field, nfields)
    THEN <<"\"">> \o DoubleQuotes(field) \o <<"\"">>
    ELSE field

\* writer.writerow([self._to_csv_field(v) for v in row]), lineterminator "\n"
CsvRow(row) ==
    Join(<<",">>, [i \in DOMAIN row |-> CsvField(ToCsvField(row[i]), Len(row))])
    \o <<"\n">>

\* buf.getvalue() after every row was written
RECURSIVE CsvText(_)
CsvText(rows) ==
    IF rows = <<>> THEN <<>> ELSE CsvRow(Head(rows)) \o CsvText(Tail(rows))

\* DataLoader._rows_to_csv_bytes: the payload, or ok = FALSE when
\* encode("utf-8", "strict") raises UnicodeEncodeError
RowsToCsvBytes(rows) ==
    [ ok   |-> \A i \in DOMAIN CsvText(rows) : CsvText(rows)[i] # Surrogate,
      data |-> CsvText(rows) ]

(***************************************************************************)
(* DataLoader: batches                                                     *)
(***************************************************************************)
\* the row coercion of _iter_oracle_batches, a mutant: short rows unpadded
CoerceRowNoPadding(row, ncols) ==
    IF Len(row) # ncols THEN Prefix(row, ncols) ELSE row

\* the row coercion of _iter_oracle_batches:
\* tuple(row[:ncols]) + (None,) * max(0, ncols - len(row))
CoerceRow(row, ncols) ==
    IF Len(row) # ncols
    THEN Prefix(row, ncols) \o Rep(PyNone, Max(0, ncols - Len(row)))
    ELSE row

\* the batch the generator yields, a mutant: the batch is yielded when it
\* has grown beyond copy_batch_rows
BatchAtOffByOne(cursor, done, ncols, batch_rows) ==
    LET n    == Max(1, batch_rows) + 1
        last == IF done + n < Len(cursor) THEN done + n ELSE Len(cursor)
    IN  [i \in 1..(last - done) |-> CoerceRow(cursor[done + i], ncols)]

\* the batch the generator yields, a mutant: the rows of a batch are
\* collected at the front of the list
BatchAtReversed(cursor, done, ncols, batch_rows) ==
    LET n    == Max(1, batch_rows)
        last == IF done + n < Len(cursor) THEN done + n ELSE Len(cursor)
    IN  [i \in 1..(last - done) |-> CoerceRow(cursor[last + 1 - i], ncols)]

\* the batch _iter_oracle_batches yields next when `done` rows of the cursor
\* were consumed: up to copy_batch_rows rows (one row when it is below 1)
BatchAt(cursor, done, ncols, batch_rows) ==
    LET n    == Max(1, batch_rows)
        last == IF done + n < Len(cursor) THEN done + n ELSE Len(cursor)
    IN  [i \in 1..(last - done) |-> CoerceRow(cursor[done + i], ncols)]

(***************************************************************************)
(* DataLoader: the tables of one load_schema call                          *)
(***************************************************************************)
MaxPar == 2
MaxBatch == 2

VInt(d)   == [t |-> "int", v |-> d]
VStr(c)   == [t |-> "str", v |-> c]
VBytes(h) == [t |-> "bytes", v |-> h]

\* the TableSpecs: name and columns
TableSpecs ==
    [ t1 |-> [name |-> "t1", columns |-> <<"id", "txt">>],
      t2 |-> [name |-> "t2", columns |-> <<"txt">>],
      t3 |-> [name |-> "t3", columns |-> <<"bin", "txt">>] ]

TableNames == DOMAIN TableSpecs

\* what the source cursor of each table delivers, row by row; rows may be
\* shorter or longer than the column list
SourceRows ==
    [ t1 |-> << <<VInt(<<"1">>)>>,
                <<VInt(<<"2">>), VStr(<<"a", ",", "b">>), VStr(<<"z">>)>>,
                <<PyNone, VStr(<<"\\", "N">>)>> >>,
      t2 |-> << <<VStr(<<"o", "k">>)>>,
                <<VStr(<<"x", Surrogate>>)>> >>,
      t3 |-> << <<VBytes(<<"0", "0", "f", "f">>), VStr(<<"q", "\"">>), PyNone>> >> ]

Cursor(t) == SourceRows[t]

NCols(t) == Len(TableSpecs[t].columns)

\* load_schema's choice of path: self.pg.copy_parallelism <= 1 or len(tables) <= 1
SequentialPath == cfg.par <= 1 \/ Len(specs) <= 1

Listed == Range(specs)

Finished(t) == st[t].pc \in {"returned", "raised"}

\* the tables whose load_table is between connecting and returning
InProgress == {t \in Listed : st[t].pc = "copy"}

\* the table taken next, a mutant: any table of the list not yet started
AnyIdle(t) == t \in Listed /\ st[t].pc = "idle"

\* the table a free worker takes: the first of the list not yet started
FirstIdle(t) ==
    \E i \in DOMAIN specs :
        /\ specs[i] = t
        /\ st[t].pc = "idle"
        /\ \A j \in 1..(i - 1) : st[specs[j]].pc # "idle"

NewTableState ==
    [ pc |-> "idle", next |-> 0, total_rows |-> 0, failed_batches |-> 0,
      ora |-> "none", pg |-> "none", committed |-> FALSE,
      sink |-> <<>>, batches |-> <<>>, cause |-> "" ]

\* the stats entry load_schema stores when load_table raised, a mutant:
\* the failure is recorded as a success
ErrorStatsAsOk(cause) == [status |-> "ok", rows |-> 0, failed_batches |-> 0]

\* the stats entry load_schema stores when load_table raised
ErrorStats(cause) == [status |-> "error", error |-> cause]

\* the stats dict load_table returns
OkStats(s) ==
    [status |-> "ok", rows |-> s.total_rows, failed_batches |-> s.failed_batches]

\* load_table raised, a mutant: the target connection commits in its
\* finally block before it closes
RaisedCommitted(t, cause, ora, pg) ==
    /\ st' = [st EXCEPT ![t] = [@ EXCEPT !.pc = "raised", !.cause = cause,
                                          !.ora = ora, !.pg = pg,
                                          !.committed = (pg = "closed")]]
    /\ stats' = Put(stats, TableSpecs[t].name, ErrorStats(cause))

\* load_table raised, a mutant: the connections are left as they were
RaisedWithoutClose(t, cause, ora, pg) ==
    /\ st' = [st EXCEPT ![t] = [@ EXCEPT !.pc = "raised", !.cause = cause]]
    /\ stats' = Put(stats, TableSpecs[t].name, ErrorStats(cause))

\* load_table raised in stage `cause`: the context managers close what was
\* opened, nothing is committed, and load_schema records the error
Raised(t, cause, ora, pg) ==
    /\ st' = [st EXCEPT ![t] = [@ EXCEPT !.pc = "raised", !.cause = cause,
                                          !.ora = ora, !.pg = pg]]
    /\ stats' = Put(stats, TableSpecs[t].name, ErrorStats(cause))

\* load_table up to the start of COPY: both connections opened, the SELECT
\* executed; or a failure in one of these stages
Begin(t) ==
    \/ /\ st' = [st EXCEPT ![t] = [@ EXCEPT !.pc = "copy", !.ora = "open", !.pg = "open"]]
       /\ UNCHANGED stats
    \/ Raised(t, "oracle_connect", "none", "none")
    \/ Raised(t, "pg_connect", "closed", "none")
    \/ Raised(t, "execute", "closed", "closed")

\* sequential path: the for loop calls load_table for the next spec
StartSequential(t) ==
    /\ lpc = "running" /\ SequentialPath
    /\ FirstIdle(t)
    /\ \A u \in Listed : st[u].pc # "idle" => Finished(u)
    /\ Begin(t)
    /\ UNCHANGED <<cfg, specs, lpc, files, encoded, nmVars, planVars, runVars>>

\* whether the pool has a thread for one more task, a mutant: no limit
WorkerFreeUnbounded == TRUE

\* whether the pool has a thread for one more task:
\* ThreadPoolExecutor(max_workers=self.pg.copy_parallelism)
WorkerFree == Cardinality(InProgress) < cfg.par

\* parallel path: a pool thread takes the next submitted load_table
StartParallel(t) ==
    /\ lpc = "running" /\ ~SequentialPath
    /\ FirstIdle(t)
    /\ WorkerFree
    /\ Begin(t)
    /\ UNCHANGED <<cfg, specs, lpc, files, encoded, nmVars, planVars, runVars>>

(***************************************************************************)
(* DataLoader: the COPY loop of load_table                                 *)
(***************************************************************************)
\* the batch the generator yields next for table t
NextBatch(t) == BatchAt(Cursor(t), st[t].next, NCols(t), cfg.batch)

\* the exception of a failed batch, as far as repr(err) shows it
EncodeError(text) == [kind |-> "UnicodeEncodeError", text |-> text]
WriteError == [kind |-> "WriteError", text |-> <<>>]

\* the file name of _log_bad_batch: the table name and a hash of
\* repr(err) + spec.name + str(len(rows))
BadBatchPath(t, rows, err) == [table |-> TableSpecs[t].name, err |-> err, n |-> Len(rows)]

\* _log_bad_batch: open(path, "wb") creates or truncates the file, then the
\* rows are encoded again and written; every exception is swallowed
FilesAfterLog(t, rows, err, dirOk) ==
    IF ~dirOk THEN files
    ELSE Put(files, BadBatchPath(t, rows, err),
             IF RowsToCsvBytes(rows).ok THEN RowsToCsvBytes(rows).data ELSE <<>>)

\* the entry of the encoder's input log for one batch
Handed(t, rows) == [table |-> t, from |-> st[t].next + 1, rows |-> rows]

\* the except branch, a mutant: the failure of a batch ends the table
QuarantineFatal(t, rows, err, dirOk) ==
    /\ files' = FilesAfterLog(t, rows, err, dirOk)
    /\ st' = [st EXCEPT ![t] =
                [@ EXCEPT !.pc = "raised", !.cause = err.kind,
                          !.ora = "closed", !.pg = "closed"]]
    /\ encoded' = encoded \cup {Handed(t, rows)}

\* the except branch, a mutant: an I/O error of _log_bad_batch is not
\* swallowed and leaves load_table
QuarantinePropagates(t, rows, err, dirOk) ==
    /\ files' = FilesAfterLog(t, rows, err, dirOk)
    /\ st' = [st EXCEPT ![t] =
                [@ EXCEPT !.failed_batches = @ + 1,
                          !.next = @ + Len(rows),
                          !.pc = IF dirOk THEN @ ELSE "raised",
                          !.cause = IF dirOk THEN @ ELSE "quarantine",
                          !.ora = IF dirOk THEN @ ELSE "closed",
                          !.pg = IF dirOk THEN @ ELSE "closed",
                          !.batches = Append(@, [rows |-> rows, from |-> st[t].next + 1,
                                                 outcome |-> err.kind,
                                                 logged |-> TRUE, dirOk |-> dirOk,
                                                 path |-> BadBatchPath(t, rows, err),
                                                 saved |-> IF BadBatchPath(t, rows, err) \in DOMAIN files'
                                                           THEN <<files'[BadBatchPath(t, rows, err)]>>
                                                           ELSE <<>>])]]
    /\ encoded' = encoded \cup {Handed(t, rows)}

\* the except branch of the batch loop: count, quarantine, go on
Quarantine(t, rows, err, dirOk) ==
    /\ files' = FilesAfterLog(t, rows, err, dirOk)
    /\ st' = [st EXCEPT ![t] =
                [@ EXCEPT !.failed_batches = @ + 1,
                          !.next = @ + Len(rows),
                          !.batches = Append(@, [rows |-> rows, from |-> st[t].next + 1,
                                                 outcome |-> err.kind,
                                                 logged |-> TRUE, dirOk |-> dirOk,
                                                 path |-> BadBatchPath(t, rows, err),
                                                 saved |-> IF BadBatchPath(t, rows, err) \in DOMAIN files'
                                                           THEN <<files'[BadBatchPath(t, rows, err)]>>
                                                           ELSE <<>>])]]
    /\ encoded' = encoded \cup {Handed(t, rows)}

InCopy(t) == lpc = "running" /\ t \in Listed /\ st[t].pc = "copy"

MoreRows(t) == st[t].next < Len(Cursor(t))

\* a batch is encoded and written to the COPY stream
BatchWritten(t) ==
    /\ InCopy(t) /\ MoreRows(t)
    /\ RowsToCsvBytes(NextBatch(t)).ok
    /\ st' = [st EXCEPT ![t] =
                [@ EXCEPT !.total_rows = @ + Len(NextBatch(t)),
                          !.next = @ + Len(NextBatch(t)),
                          !.sink = @ \o RowsToCsvBytes(NextBatch(t)).data,
                          !.batches = Append(@, [rows |-> NextBatch(t), from |-> st[t].next + 1,
                                                 outcome |-> "written",
                                                 logged |-> FALSE, dirOk |-> TRUE,
                                                 path |-> <<>>, saved |-> <<>>])]]
    /\ encoded' = encoded \cup {Handed(t, NextBatch(t))}
    /\ UNCHANGED <<cfg, specs, lpc, stats, files, nmVars, planVars, runVars>>

\* _rows_to_csv_bytes raises on the batch
BatchEncodeFailed(t) ==
    /\ InCopy(t) /\ MoreRows(t)
    /\ ~RowsToCsvBytes(NextBatch(t)).ok
    /\ \E dirOk \in BOOLEAN :
         Quarantine(t, NextBatch(t), EncodeError(RowsToCsvBytes(NextBatch(t)).data), dirOk)
    /\ UNCHANGED <<cfg, specs, lpc, stats, nmVars, planVars, runVars>>

\* cp.write raises on the encoded batch
BatchWriteFailed(t) ==
    /\ InCopy(t) /\ MoreRows(t)
    /\ RowsToCsvBytes(NextBatch(t)).ok
    /\ \E dirOk \in BOOLEAN : Quarantine(t, NextBatch(t), WriteError, dirOk)
    /\ UNCHANGED <<cfg, specs, lpc, stats, nmVars, planVars, runVars>>

\* the cursor raises while the generator fetches the next row
FetchFailed(t) ==
    /\ InCopy(t) /\ MoreRows(t)
    /\ Raised(t, "fetch", "closed", "closed")
    /\ UNCHANGED <<cfg, specs, lpc, files, encoded, nmVars, planVars, runVars>>

\* the cursor is exhausted: the with blocks exit, _pg_conn commits and
\* closes, load_table returns its stats; or the commit raises
Finish(t) ==
    /\ InCopy(t) /\ ~MoreRows(t)
    /\ \/ /\ st' = [st EXCEPT ![t] = [@ EXCEPT !.pc = "returned", !.committed = TRUE,
                                               !.ora = "closed", !.pg = "closed"]]
          /\ stats' = Put(stats, TableSpecs[t].name, OkStats(st[t]))
       \/ Raised(t, "commit", "closed", "closed")
    /\ UNCHANGED <<cfg, specs, lpc, files, encoded, nmVars, planVars, runVars>>

\* load_schema returns the stats once every table is done
ReturnSchema ==
    /\ lpc = "running"
    /\ \A t \in Listed : Finished(t)
    /\ lpc' = "returned"
    /\ UNCHANGED <<cfg, specs, st, stats, files, encoded, nmVars, planVars, runVars>>

\* the table lists handed to load_schema
TableLists == {<<>>, <<"t1">>, <<"t2", "t1">>, <<"t1", "t2", "t3">>, <<"t3", "t2", "t1">>}

InitLoad ==
    /\ NamesIdle /\ PlanIdle /\ RunIdle
    /\ cfg \in [par : 0..MaxPar, batch : 0..MaxBatch]
    /\ specs \in TableLists
    /\ lpc = "running"
    /\ st = [t \in TableNames |-> NewTableState]
    /\ stats = <<>>
    /\ files = <<>>
    /\ encoded = {}

NextLoad ==
    \/ \E t \in TableNames : StartSequential(t)
    \/ \E t \in TableNames : StartParallel(t)
    \/ \E t \in TableNames : BatchWritten(t)
    \/ \E t \in TableNames : BatchEncodeFailed(t)
    \/ \E t \in TableNames : BatchWriteFailed(t)
    \/ \E t \in TableNames : FetchFailed(t)
    \/ \E t \in TableNames : Finish(t)
    \/ ReturnSchema

SpecLoad == InitLoad /\ [][NextLoad]_vars

(***************************************************************************)
(* DataLoader: claims                                                      *)
(***************************************************************************)
\* C6 as stated: the number of tables whose load_table is in progress never
\* exceeds copy_parallelism.  With copy_parallelism below 1 the sequential
\* path still loads one table at a time.
C6_AsStated == Cardinality(InProgress) <= cfg.par

\* C6: the number of tables whose load_table is in progress never exceeds
\* copy_parallelism, or 1 when copy_parallelism is below 1 (sequential path)
C6_BoundedByWorkers == Cardinality(InProgress) <= Max(1, cfg.par)

\* the pool is full while another table waits for a worker
C6_Witness ==
    /\ ~SequentialPath
    /\ Cardinality(InProgress) = cfg.par
    /\ \E t \in Listed : st[t].pc = "idle"

StatsOf(t) == stats[TableSpecs[t].name]

HasStats(t) == TableSpecs[t].name \in DOMAIN stats

\* C7: once load_schema returns, every listed table has run to its end, the
\* stats have an entry for each, with status error exactly for the tables
\* whose load_table raised and status ok for the others, which consumed
\* their whole cursor and committed; a table that is done has its entry at once
C7_FailureIsolated ==
    /\ \A t \in Listed :
         Finished(t) =>
            /\ HasStats(t)
            /\ (st[t].pc = "raised") <=> (StatsOf(t).status = "error")
            /\ (st[t].pc = "returned") <=> (StatsOf(t).status = "ok")
            /\ st[t].pc = "returned" => st[t].next = Len(Cursor(t)) /\ st[t].committed
    /\ lpc = "returned" =>
            /\ \A t \in Listed : Finished(t)
            /\ DOMAIN stats = {TableSpecs[t].name : t \in Listed}

\* load_schema returned from the parallel path with one table raised and the
\* others loaded
C7_Witness ==
    /\ lpc = "returned" /\ ~SequentialPath /\ Len(specs) = 3
    /\ \E t \in Listed :
         /\ st[t].pc = "raised"
         /\ \A u \in Listed \ {t} : st[u].pc = "returned" /\ StatsOf(u).status = "ok"

Failed(b) == b.outcome # "written"

RECURSIVE RowsIn(_)
\* the number of rows in the written batches of a history
RowsIn(bs) ==
    IF bs = <<>> THEN 0
    ELSE (IF Failed(bs[Len(bs)]) THEN 0 ELSE Len(bs[Len(bs)].rows))
         + RowsIn(SubSeq(bs, 1, Len(bs) - 1))

C9_FailedBatchSaved ==
    \A t \in Listed :
        \A i \in DOMAIN st[t].batches :
            LET b == st[t].batches[i] IN
            (Failed(b) /\ b.dirOk) => b.saved = <<CsvText(b.rows)>>

\* C10: every row handed to the CSV encoder for a table has as many fields
\* as the table has columns: the values of the cursor's row in order, cut
\* after the last column, and NULL for the columns the cursor's row lacks
C10_RowArity ==
    \A e \in encoded :
        \A k \in DOMAIN e.rows :
            LET source == Cursor(e.table)[e.from + k - 1]
                row    == e.rows[k]
            IN  /\ Len(row) = NCols(e.table)
                /\ \A j \in 1..NCols(e.table) :
                      row[j] = IF j <= Len(source) THEN source[j] ELSE PyNone

\* the encoder has been handed a row the cursor delivered too long and one it
\* delivered too short
C10_Witness ==
    /\ \E e \in encoded : \E k \in DOMAIN e.rows :
          Len(Cursor(e.table)[e.from + k - 1]) > NCols(e.table)
    /\ \E e \in encoded : \E k \in DOMAIN e.rows :
          Len(Cursor(e.table)[e.from + k - 1]) < NCols(e.table)

(***************************************************************************)
(* DataLoader: order of the rows in the COPY stream                        *)
(***************************************************************************)
RECURSIVE WrittenIndexes(_)
\* the positions in the cursor of the rows of the written batches, in the
\* order the batches were written
WrittenIndexes(bs) ==
    IF bs = <<>> THEN <<>>
    ELSE WrittenIndexes(SubSeq(bs, 1, Len(bs) - 1))
         \o (IF Failed(bs[Len(bs)]) THEN <<>>
             ELSE [k \in 1..Len(bs[Len(bs)].rows) |-> bs[Len(bs)].from + k - 1])

\* C11: what a table's COPY stream received is the CSV of cursor rows taken
\* at strictly increasing positions of the cursor: each row at most once and
\* in the cursor's order, inside a batch and from one batch to the next
C11_CursorOrder ==
    \A t \in Listed :
        LET idx == WrittenIndexes(st[t].batches) IN
        /\ \A i, j \in DOMAIN idx : i < j => idx[i] < idx[j]
        /\ \A i \in DOMAIN idx : idx[i] \in DOMAIN Cursor(t)
        /\ st[t].sink = CsvText([i \in DOMAIN idx |-> CoerceRow(Cursor(t)[idx[i]], NCols(t))])

\* a table's stream holds the three rows of two written batches, one of them
\* of two rows
C11_Witness ==
    \E t \in Listed :
        /\ Len(WrittenIndexes(st[t].batches)) = 3
        /\ Len(st[t].batches) = 2

(***************************************************************************)
(* DataLoader: connections                                                 *)
(***************************************************************************)
\* the connections load_table had opened when it failed in stage `cause`
OpenedBefore(cause) ==
    [ ora |-> cause # "oracle_connect",
      pg  |-> cause \notin {"oracle_connect", "pg_connect"} ]

\* C12: a connection is open only while its table's load_table is running;
\* when load_table has returned or raised, in whatever stage, each connection
\* it had opened is closed
C12_ConnectionsReleased ==
    \A t \in TableNames :
        /\ (st[t].ora = "open" \/ st[t].pg = "open") => st[t].pc = "copy"
        /\ st[t].pc = "returned" => st[t].ora = "closed" /\ st[t].pg = "closed"
        /\ st[t].pc = "raised" =>
              /\ st[t].ora = (IF OpenedBefore(st[t].cause).ora THEN "closed" ELSE "none")
              /\ st[t].pg = (IF OpenedBefore(st[t].cause).pg THEN "closed" ELSE "none")

\* load_schema returned after load_table ended on different paths: the target
\* connect failed for one table, the fetch or the commit for another, and
\* a third returned
C12_Witness ==
    /\ lpc = "returned"
    /\ \E t \in Listed : st[t].pc = "raised" /\ st[t].cause = "pg_connect"
    /\ \E t \in Listed : st[t].pc = "raised" /\ st[t].cause \in {"fetch", "commit"}
    /\ \E t \in Listed : st[t].pc = "returned"

(***************************************************************************)
(* DataLoader: shape of the statistics                                     *)
(***************************************************************************)
\* C13: every entry of load_schema's stats has a status ok or error, a rows
\* count and a failed_batches count, and an entry with status error has an
\* error description too
C13_StatsShape ==
    \A name \in DOMAIN stats :
        /\ {"status", "rows", "failed_batches"} \subseteq DOMAIN stats[name]
        /\ stats[name].status \in {"ok", "error"}
        /\ stats[name].status = "error" => "error" \in DOMAIN stats[name]

(***************************************************************************)
(* apply_statements (apply_ddl.py)                                         *)
(***************************************************************************)
MaxStmts == 3

\* statement texts of a plan; a plan may hold the same text twice
StmtTexts == {"CREATE SEQUENCE s", "CREATE TABLE t"}

\* the errors cur.execute raises
ExecErrors == {"DuplicateTable", "SyntaxError"}

RECURSIVE SeqsUpTo(_, _)
\* the sequences over S of length at most n
SeqsUpTo(S, n) ==
    IF n = 0 THEN {<<>>}
    ELSE SeqsUpTo(S, n - 1)
         \cup {Append(q, x) : q \in {r \in SeqsUpTo(S, n - 1) : Len(r) = n - 1}, x \in S}

\* the except branch of the loop, a mutant: the record is always replaced
NoteErrorLatest(first_error, i, stmt, e) == <<[i |-> i, stmt |-> stmt, e |-> e]>>

\* the except branch of the loop: first_error is set only while it is None
NoteError(first_error, i, stmt, e) ==
    IF first_error = <<>> THEN <<[i |-> i, stmt |-> stmt, e |-> e]>> ELSE first_error

InitApply ==
    /\ NamesIdle /\ PlanIdle /\ LoadIdle
    /\ mg = <<>> /\ fcall = <<>>
    /\ ap \in [ stmts : SeqsUpTo(StmtTexts, MaxStmts), pc : {"connecting"}, i : {1},
                connected : {FALSE}, log : {<<>>}, first_error : {<<>>},
                summary : {<<>>} ]

\* psycopg.connect succeeds and the loop starts, or it raises and the outer
\* except returns
Connect ==
    /\ ap # <<>> /\ ap.pc = "connecting"
    /\ \/ ap' = [ap EXCEPT !.pc = "loop", !.connected = TRUE]
       \/ ap' = [ap EXCEPT !.pc = "returned", !.summary = <<"connect failed">>]
    /\ UNCHANGED <<nmVars, planVars, loadVars, mg, fcall>>

InLoop == ap # <<>> /\ ap.pc = "loop" /\ ap.i <= Len(ap.stmts)

\* cur.execute(stmt) succeeds
ExecuteOk ==
    /\ InLoop
    /\ ap' = [ap EXCEPT !.i = @ + 1,
                        !.log = Append(@, [i |-> ap.i, stmt |-> ap.stmts[ap.i], e |-> <<>>])]
    /\ UNCHANGED <<nmVars, planVars, loadVars, mg, fcall>>

\* cur.execute(stmt) raises e; the loop goes on (autocommit)
ExecuteFailed(e) ==
    /\ InLoop
    /\ ap' = [ap EXCEPT !.i = @ + 1,
                        !.log = Append(@, [i |-> ap.i, stmt |-> ap.stmts[ap.i], e |-> <<e>>]),
                        !.first_error = NoteError(@, ap.i, ap.stmts[ap.i], e)]
    /\ UNCHANGED <<nmVars, planVars, loadVars, mg, fcall>>

\* the loop is over: the summary names the first error, or none
ReturnApply ==
    /\ ap # <<>> /\ ap.pc = "loop" /\ ap.i > Len(ap.stmts)
    /\ ap' = [ap EXCEPT !.pc = "returned",
                        !.summary = IF ap.first_error = <<>> THEN <<"no errors">>
                                    ELSE <<"first error", ap.first_error[1]>>]
    /\ UNCHANGED <<nmVars, planVars, loadVars, mg, fcall>>

NextApply ==
    \/ Connect
    \/ ExecuteOk
    \/ \E e \in ExecErrors : ExecuteFailed(e)
    \/ ReturnApply

SpecApply == InitApply /\ [][NextApply]_vars

\* the positions of the log at which the statement failed
FailedAt == {k \in DOMAIN ap.log : ap.log[k].e # <<>>}

\* C14: on an open connection apply_statements executes the statements one
\* by one in plan order, each once, whether or not an earlier one failed, so
\* that at its return every statement was executed; first_error is the
\* index, text and error of the earliest statement that failed, and stays so
C14_ApplyAllKeepFirstError ==
    /\ \A k \in DOMAIN ap.log : ap.log[k].i = k /\ ap.log[k].stmt = ap.stmts[k]
    /\ Len(ap.log) = ap.i - 1
    /\ (ap.pc = "returned" /\ ap.connected) => Len(ap.log) = Len(ap.stmts)
    /\ IF FailedAt = {} THEN ap.first_error = <<>>
       ELSE LET k == CHOOSE x \in FailedAt : \A y \in FailedAt : x <= y
            IN  ap.first_error = <<[i |-> k, stmt |-> ap.stmts[k], e |-> ap.log[k].e[1]]>>

\* apply_statements returned after two statements failed with different
\* errors and a later statement was executed
C14_Witness ==
    /\ ap.pc = "returned" /\ ap.connected
    /\ \E j, k, l \in DOMAIN ap.log :
          /\ j < k /\ k < l
          /\ ap.log[j].e # <<>> /\ ap.log[k].e # <<>> /\ ap.log[j].e # ap.log[k].e
          /\ ap.log[l].e = <<>>

(***************************************************************************)
(* The migrate command (cli.py)                                            *)
(***************************************************************************)
MaxTables == 2

\* the table names discovery may return
DiscoveredNames == {"orders", "customers", "items"}

\* the table lists discovery may return: no name twice
DiscoveredLists ==
    {q \in SeqsUpTo(DiscoveredNames, MaxTables) :
        \A i, j \in DOMAIN q : i # j => q[i] # q[j]}

\* the tables build_structures may group column rows under when get_tables
\* returned q, in the order of their first column row: every table of q has
\* columns, and all_tab_columns also lists the columns of the owner's views,
\* which all_tables does not list
ColumnOwners(q) ==
    {d \in SeqsUpTo(DiscoveredNames, MaxTables + 1) :
        /\ \A i, j \in DOMAIN d : i # j => d[i] # d[j]
        /\ \A i \in DOMAIN q : \E j \in DOMAIN d : d[j] = q[i]}

\* what validate_counts may return for `tables`: an entry for each table of
\* a prefix of the list (its bare except ends the loop at the first query
\* that raises), each with a match flag
CountReports(tables) ==
    UNION {[1..k -> BOOLEAN] : k \in 0..Len(tables)}

\* the exit status of the process when an exception leaves migrate uncaught:
\* the interpreter prints the traceback and exits with status 1
UncaughtExit == 1

InitMigrate ==
    /\ NamesIdle /\ PlanIdle /\ LoadIdle
    /\ ap = <<>> /\ fcall = <<>>
    /\ mg = [ pc |-> "start", tables |-> <<>>, table_defs |-> <<>>,
              created |-> <<>>, specs |-> <<>>, discovered |-> FALSE,
              planned |-> FALSE, applied |-> FALSE, loaded |-> FALSE,
              counts |-> <<>>, validated |-> FALSE, fatal |-> FALSE, exit |-> <<>> ]

\* an exception leaves migrate: nothing in migrate catches it
Fatal == mg' = [mg EXCEPT !.pc = "exited", !.fatal = TRUE, !.exit = <<UncaughtExit>>]

\* step 1: OracleIntrospector connects and build_structures reads the
\* catalog, or the connect or a query raises
Discover ==
    /\ mg # <<>> /\ mg.pc = "start"
    /\ \/ \E q \in DiscoveredLists : \E d \in ColumnOwners(q) :
             mg' = [mg EXCEPT !.pc = "discovered", !.tables = q, !.table_defs = d,
                              !.discovered = TRUE]
       \/ Fatal
    /\ UNCHANGED <<nmVars, planVars, loadVars, ap, fcall>>

\* if not tables: raise typer.Exit(code=1)
ExitNoTables ==
    /\ mg # <<>> /\ mg.pc = "discovered" /\ mg.tables = <<>>
    /\ mg' = [mg EXCEPT !.pc = "exited", !.exit = <<1>>]
    /\ UNCHANGED <<nmVars, planVars, loadVars, ap, fcall>>

\* step 2: one triplet for each name of `tables`, for which compose_plan
\* emits one CREATE TABLE each; compose_plan returns the plan, or raises
PlanDdl ==
    /\ mg # <<>> /\ mg.pc = "discovered" /\ mg.tables # <<>>
    /\ \/ mg' = [mg EXCEPT !.pc = "planned", !.planned = TRUE, !.created = mg.tables]
       \/ Fatal
    /\ UNCHANGED <<nmVars, planVars, loadVars, ap, fcall>>

\* step 3: apply_statements, which catches every exception itself
ApplyDdl ==
    /\ mg # <<>> /\ mg.pc = "planned"
    /\ mg' = [mg EXCEPT !.pc = "applied", !.applied = TRUE]
    /\ UNCHANGED <<nmVars, planVars, loadVars, ap, fcall>>

\* the TableSpecs make_tablespecs builds, each written as the catalog table
\* it is made from: one for every key of table_defs, in the dict's order
MakeTablespecs(table_defs) == table_defs

\* step 4: make_tablespecs(table_defs), then load_schema, which catches the
\* exceptions of every table
LoadData ==
    /\ mg # <<>> /\ mg.pc = "applied"
    /\ mg' = [mg EXCEPT !.pc = "loaded", !.loaded = TRUE,
                        !.specs = MakeTablespecs(mg.table_defs)]
    /\ UNCHANGED <<nmVars, planVars, loadVars, ap, fcall>>

\* step 5: validate_counts returns its report and migrate exits with 2 when
\* an entry does not match, with 0 otherwise; or one of validate_counts's
\* connects raises
Validate ==
    /\ mg # <<>> /\ mg.pc = "loaded"
    /\ \/ \E r \in CountReports(mg.tables) :
             mg' = [mg EXCEPT !.pc = "exited", !.counts = r, !.validated = TRUE,
                              !.exit = IF \E k \in DOMAIN r : ~r[k] THEN <<2>> ELSE <<0>>]
       \/ Fatal
    /\ UNCHANGED <<nmVars, planVars, loadVars, ap, fcall>>

NextMigrate ==
    \/ Discover
    \/ ExitNoTables
    \/ PlanDdl
    \/ ApplyDdl
    \/ LoadData
    \/ Validate

SpecMigrate == InitMigrate /\ [][NextMigrate]_vars

\* C15: the run has exit status 1 exactly when discovery returned an empty
\* table list, and then nothing was planned, applied or loaded; and it has
\* exit status 2 whenever the validation report has a table that does not
\* match
C15_ExitStatus ==
    mg.pc = "exited" =>
        /\ (mg.exit = <<1>>) <=> (mg.discovered /\ mg.tables = <<>>)
        /\ mg.exit = <<1>> => ~mg.planned /\ ~mg.applied /\ ~mg.loaded
        /\ (mg.validated /\ \E k \in DOMAIN mg.counts : ~mg.counts[k]) => mg.exit = <<2>>

(***************************************************************************)
(* Identifiers of the COPY statement                                       *)
(***************************************************************************)
\* the target identifier load_table names in COPY for the source identifier
\* x: make_tablespecs stores x.lower() in the TableSpec and load_table wraps
\* it in sql.Identifier, which quotes it and so denotes exactly that text
CopyIdent(x) == [i \in DOMAIN x |-> ToLower(x[i])]

\* C16: for every source identifier the planner registered in the Name
\* Mapper, the identifier the loader names in COPY is the mapper's target
\* identifier, the one CREATE TABLE was emitted with
C16_CopyNamesMatchPlan ==
    \A x \in DOMAIN nm.map : CopyIdent(x) = nm.map[x]

(***************************************************************************)
(* The Type Map called on its own (type_map.py)                            *)
(***************************************************************************)
\* source type names handed to the Type Map: the recognized ones and one
\* that is not in the table
OraTypes == DOMAIN TypeDict \cup {"INTERVAL"}

\* data_precision and data_scale: None, or the digits of an integer
Precisions == {<<>>, << <<"5", "0">> >>, << <<"1", "0">> >>}
Scales     == {<<>>, << <<"2">> >>, << <<"0">> >>}

InitTypeMap ==
    /\ NamesIdle /\ PlanIdle /\ LoadIdle
    /\ ap = <<>> /\ mg = <<>>
    /\ fcall \in [ fn : {"map"},
                   arg : [ora_type : OraTypes, precision : Precisions, scale : Scales],
                   done : {FALSE}, ret : {<<>>} ]

\* map(ora_type, precision, scale) returns
CallMap ==
    /\ fcall # <<>> /\ fcall.fn = "map" /\ ~fcall.done
    /\ fcall' = [fcall EXCEPT !.done = TRUE,
                              !.ret = MapType(fcall.arg.ora_type, fcall.arg.precision,
                                              fcall.arg.scale)]
    /\ UNCHANGED <<nmVars, planVars, loadVars, ap, mg>>

NextTypeMap == CallMap

SpecTypeMap == InitTypeMap /\ [][NextTypeMap]_vars

\* C17: for a recognized type the Type Map returns base(precision,scale)
\* when precision and scale are both given, base(precision) when only the
\* precision is given, and the bare base otherwise
C17_PrecisionScaleFormat ==
    (fcall.done /\ fcall.arg.ora_type \in DOMAIN TypeDict) =>
        LET base == TypeDict[fcall.arg.ora_type]
            p    == fcall.arg.precision
            s    == fcall.arg.scale
        IN  fcall.ret =
              IF p # <<>> /\ s # <<>>
              THEN << <<base, "(">> \o p[1] \o <<",">> \o s[1] \o <<")">> >>
              ELSE IF p # <<>>
              THEN << <<base, "(">> \o p[1] \o <<")">> >>
              ELSE << <<base>> >>

\* the base target types the specification lists
ListedBase ==
    [ CHAR |-> "char", NCHAR |-> "char", CHARACTER |-> "char",
      VARCHAR2 |-> "varchar", NVARCHAR2 |-> "varchar",
      LONG |-> "text", CLOB |-> "text", NCLOB |-> "text",
      RAW |-> "bytea", BLOB |-> "bytea", BFILE |-> "bytea",
      DATE |-> "timestamp(0)", TIMESTAMP |-> "timestamp", UROWID |-> "uuid" ]

\* a type name as PostgreSQL reads it in DDL: unquoted names are folded to
\* lower case
PgFold(name) == IF name = "UUID" THEN "uuid" ELSE name

\* C18: called without precision and scale, the Type Map returns for each
\* listed source type the base target type the specification lists for it
C18_ListedBaseTypes ==
    (/\ fcall.done
     /\ fcall.arg.ora_type \in DOMAIN ListedBase
     /\ fcall.arg.precision = <<>> /\ fcall.arg.scale = <<>>)
    => /\ fcall.ret # <<>>
       /\ Len(fcall.ret[1]) = 1
       /\ PgFold(fcall.ret[1][1]) = ListedBase[fcall.arg.ora_type]

(***************************************************************************)
(* emit_sequences called on its own                                        *)
(***************************************************************************)
\* max_value texts that do not exceed 9223372036854775807
MaxValuesFitting ==
    { <<"9","2","2","3","3","7","2","0","3","6","8","5","4","7","7","5","8","0","7">>,
      <<"9","2","2","3","3","7","2","0","3","6","8","5","4","7","7","5","8","0","6">>,
      <<"1">>,
      <<"-","5">>,
      <<"9","9","9","9","9","9","9","9","9","9","9","9","9","9","9","9","9","9">>,
      <<"9","0","0","0","0","0","0","0","0","0","0","0","0","0","0","0","0","0","0">> }

\* max_value texts that exceed it; the last two are Oracle's defaults
MaxValuesTooLarge ==
    { <<"9","2","2","3","3","7","2","0","3","6","8","5","4","7","7","5","8","0","8">>,
      <<"9","3","0","0","0","0","0","0","0","0","0","0","0","0","0","0","0","0","0">>,
      <<"1","0","0","0","0","0","0","0","0","0","0","0","0","0","0","0","0","0","0","0">>,
      <<"1","0","0","0","0","0","0","0","0","0","0","0","0","0","0","0","0","0","0","0","0","0","0","0","0","0","0","0","0">>,
      <<"9","9","9","9","9","9","9","9","9","9","9","9","9","9","9","9","9","9","9","9","9","9","9","9","9","9","9","9">> }

SequenceDefs ==
    [ sequence_name : {<<"S", "E", "Q", "_", "A">>},
      increment_by  : {<<>>, << <<"1">> >>},
      min_value     : {<<>>, << <<"1">> >>},
      max_value     : {<<>>} \cup {<<v>> : v \in MaxValuesFitting \cup MaxValuesTooLarge},
      cache_size    : {<<>>, << <<"0">> >>, << <<"2", "0">> >>},
      cycle_flag    : {"Y", "N"} ]

InitSequences ==
    /\ NamesIdle /\ PlanIdle /\ LoadIdle
    /\ ap = <<>> /\ mg = <<>>
    /\ fcall \in [ fn : {"emit_sequences"},
                   arg : [sq : SequenceDefs, schema : {<<>>, SchemaPublic}],
                   done : {FALSE}, ret : {<<>>} ]

\* emit_sequences([sq], schema, NameMapper()) returns its one statement
CallEmitSequences ==
    /\ fcall # <<>> /\ fcall.fn = "emit_sequences" /\ ~fcall.done
    /\ fcall' = [fcall EXCEPT !.done = TRUE,
                              !.ret = EmitSequence(RegisterAll(NewNameMapper,
                                                       SequenceIds(fcall.arg.sq, fcall.arg.schema)),
                                                   fcall.arg.sq, fcall.arg.schema)]
    /\ UNCHANGED <<nmVars, planVars, loadVars, ap, mg>>

NextSequences == CallEmitSequences

SpecSequences == InitSequences /\ [][NextSequences]_vars

\* the positions of a statement at which a clause keyword stands
ClauseAt(stmt, keyword) == {i \in DOMAIN stmt : stmt[i] = keyword}

\* the text between a clause keyword at position i and the next clause
ClauseValue(stmt, i) ==
    LET stop == CHOOSE j \in (i + 1)..Len(stmt) :
                    /\ stmt[j] \in {" ", ";"}
                    /\ \A k \in (i + 1)..(j - 1) : stmt[k] \notin {" ", ";"}
    IN  SubSeq(stmt, i + 1, stop - 1)

\* C19: the CREATE SEQUENCE statement is emitted for every sequence; it has
\* a MAXVALUE clause exactly when max_value is present and does not exceed
\* 9223372036854775807, and the clause then carries max_value itself
C19_MaxValueClause ==
    fcall.done =>
        LET stmt == fcall.ret
            mv   == fcall.arg.sq.max_value
            at   == ClauseAt(stmt, "MAXVALUE ")
        IN  /\ stmt # <<>>
            /\ stmt[1] = "CREATE SEQUENCE IF NOT EXISTS " /\ stmt[Len(stmt)] = ";"
            /\ (at # {}) <=> (mv # <<>> /\ mv[1] \in MaxValuesFitting)
            /\ Cardinality(at) <= 1
            /\ \A i \in at : ClauseValue(stmt, i) = mv[1]

\* the statement for a sequence whose max_value is 9223372036854775808 has
\* no MAXVALUE clause
C19_Witness ==
    /\ fcall.done
    /\ fcall.arg.sq.max_value = << <<"9","2","2","3","3","7","2","0","3","6","8","5","4","7","7","5","8","0","8">> >>
    /\ ClauseAt(fcall.ret, "MAXVALUE ") = {}
    /\ ClauseAt(fcall.ret, "CACHE ") # {}

(***************************************************************************)
(* The foreign keys of a plan and the configuration                        *)
(***************************************************************************)
SchemaHr == <<"H", "R">>

RECURSIVE FkStatements(_, _, _)
\* the statements compose_plan gets from emit_constraints(fks, schema, nm):
\* the keyword argument deferrable is not passed and has its default, True
FkStatements(m, fks, schema) ==
    IF fks = <<>> THEN <<>>
    ELSE LET m1 == RegisterAll(m, ConstraintIds(Head(fks), schema))
         IN  <<EmitConstraint(m1, Head(fks), schema, TRUE)>>
             \o FkStatements(m1, Tail(fks), schema)

\* a migration configured with MigrateCfg.fks_deferrable and the foreign
\* keys discovery returned
InitFkPlan ==
    /\ NamesIdle /\ PlanIdle /\ LoadIdle
    /\ ap = <<>> /\ mg = <<>>
    /\ fcall \in [ fn : {"compose_plan"},
                   arg : [ fks_deferrable : BOOLEAN,
                           fks : SeqsUpTo({FkA, FkB, FkC}, MaxPerPhase),
                           schema : {<<>>, SchemaPublic, SchemaHr} ],
                   done : {FALSE}, ret : {<<>>} ]

\* compose_plan(schema, [], [], fks, [], NameMapper()) returns; nothing
\* hands it the configured fks_deferrable
CallComposePlan ==
    /\ fcall # <<>> /\ fcall.fn = "compose_plan" /\ ~fcall.done
    /\ fcall' = [fcall EXCEPT !.done = TRUE,
                              !.ret = FkStatements(NewNameMapper, fcall.arg.fks,
                                                   fcall.arg.schema)]
    /\ UNCHANGED <<nmVars, planVars, loadVars, ap, mg>>

NextFkPlan == CallComposePlan

SpecFkPlan == InitFkPlan /\ [][NextFkPlan]_vars

\* C20: every FOREIGN KEY statement of the plan carries DEFERRABLE INITIALLY
\* DEFERRED exactly when the migration is configured with deferrable
\* foreign keys
C20_DeferrableAsConfigured ==
    fcall.done =>
        \A k \in DOMAIN fcall.ret :
            (ClauseAt(fcall.ret[k], " DEFERRABLE INITIALLY DEFERRED") # {})
                <=> fcall.arg.fks_deferrable

(***************************************************************************)
(* The form of a foreign-key statement                                     *)
(***************************************************************************)
\* the position of the last piece of statement text before position i that
\* opens a part of a foreign-key statement
PartBefore(stmt, i) ==
    LET opens == {j \in 1..(i - 1) :
                    stmt[j] \in {"ALTER TABLE ", " ADD CONSTRAINT ", " FOREIGN KEY (",
                                 ") REFERENCES ", " ("}}
    IN  CHOOSE j \in opens : \A k \in opens : k <= j

\* the positions of the characters of the schema, table, referenced-table
\* and column identifiers of a foreign-key statement (not of the constraint
\* name)
NamedAt(stmt) ==
    {i \in DOMAIN stmt :
        /\ stmt[i] \in IdentChars
        /\ stmt[PartBefore(stmt, i)] # " ADD CONSTRAINT "}

\* C21: in every foreign-key statement the schema, table, referenced-table
\* and column identifiers stand in double quotes, the statement has ON DELETE
\* <rule> exactly when the delete rule is not NO ACTION, and it ends with
\* DEFERRABLE INITIALLY DEFERRED
C21_ForeignKeyForm ==
    fcall.done =>
        \A k \in DOMAIN fcall.ret :
            LET stmt == fcall.ret[k]
                fk   == fcall.arg.fks[k]
                n    == Len(stmt)
            IN  /\ \A i \in NamedAt(stmt) :
                      /\ stmt[i - 1] \in IdentChars \cup {"\""}
                      /\ stmt[i + 1] \in IdentChars \cup {"\""}
                /\ (ClauseAt(stmt, " ON DELETE ") # {}) <=> (DeleteRule(fk) # "NO ACTION")
                /\ \A i \in ClauseAt(stmt, " ON DELETE ") :
                      stmt[i + 1] = DeleteRule(fk) /\ i + 1 = n - 2
                /\ stmt[n - 1] = " DEFERRABLE INITIALLY DEFERRED" /\ stmt[n] = ";"

(***************************************************************************)
(* DataLoader: failures of the quarantine itself                           *)
(***************************************************************************)
\* the quarantine of a failed batch failed: the output directory could not
\* be written, or the rows could not be encoded again (the rows that raised
\* in the encoder once raise in it again)
QuarantineFailed(b) ==
    Failed(b) /\ (~b.dirOk \/ b.outcome = "UnicodeEncodeError")

\* C22: a batch whose quarantine failed does not end its table: load_table
\* does not raise because of it, the batch after it starts at the next row
\* of the cursor, and a table that returned has attempted the whole cursor
\* and has status ok
C22_QuarantineFailureNonFatal ==
    \A t \in Listed :
        \A i \in DOMAIN st[t].batches :
            LET b == st[t].batches[i] IN
            QuarantineFailed(b) =>
                /\ st[t].pc \in {"copy", "returned", "raised"}
                /\ st[t].pc = "raised" => st[t].cause \in {"fetch", "commit"}
                /\ st[t].next >= b.from + Len(b.rows) - 1
                /\ i < Len(st[t].batches) =>
                      st[t].batches[i + 1].from = b.from + Len(b.rows)
                /\ st[t].pc = "returned" =>
                      /\ st[t].next = Len(Cursor(t))
                      /\ HasStats(t) /\ StatsOf(t).status = "ok"

\* a table returned with status ok after the quarantine of a batch failed
\* for the directory and a later batch was written, and another returned
\* after the rows of a batch could not be encoded again
C22_Witness ==
    /\ \E t \in Listed :
         /\ st[t].pc = "returned" /\ StatsOf(t).status = "ok"
         /\ \E i, j \in DOMAIN st[t].batches :
              /\ i < j
              /\ Failed(st[t].batches[i]) /\ ~st[t].batches[i].dirOk
              /\ st[t].batches[j].outcome = "written"
    /\ \E t \in Listed :
         /\ st[t].pc = "returned"
         /\ \E i \in DOMAIN st[t].batches :
              /\ st[t].batches[i].dirOk
              /\ st[t].batches[i].outcome = "UnicodeEncodeError"
              /\ st[t].batches[i].saved = << <<>> >>

(***************************************************************************)
(* DataLoader: the sequential path                                         *)
(***************************************************************************)
\* C23: with copy_parallelism <= 1 or at most one table in the list, at most
\* one table is in progress, and a table has started only if every table
\* before it in the list has returned or raised
C23_SequentialInListOrder ==
    SequentialPath =>
        /\ Cardinality(InProgress) <= 1
        /\ \A i, j \in DOMAIN specs :
              (i < j /\ st[specs[j]].pc # "idle") => Finished(specs[i])

\* on the sequential path with three tables, the first has raised, the
\* second is being loaded and the third has not started
C23_Witness ==
    /\ SequentialPath /\ Len(specs) = 3
    /\ st[specs[1]].pc = "raised"
    /\ st[specs[2]].pc = "copy"
    /\ st[specs[3]].pc = "idle"

(***************************************************************************)
(* DataLoader: commit                                                      *)
(***************************************************************************)
\* C24: a table's target transaction is committed only when load_table has
\* gone through the whole cursor and returned, whether or not batches
\* failed; a table that raised, and so has status error, was never
\* committed and its target connection is not open
C24_CommitOnlyOnSuccess ==
    \A t \in TableNames :
        /\ st[t].committed =>
              /\ st[t].pc = "returned"
              /\ st[t].next = Len(Cursor(t))
        /\ st[t].pc = "returned" => st[t].committed
        /\ st[t].pc = "raised" =>
              /\ ~st[t].committed
              /\ st[t].pg # "open"
              /\ HasStats(t) /\ StatsOf(t).status = "error"

\* one table was committed although a batch of it failed, and another
\* raised after rows had been written to its COPY stream and is not
\* committed
C24_Witness ==
    /\ \E t \in Listed :
         st[t].pc = "returned" /\ st[t].committed /\ st[t].failed_batches > 0
    /\ \E t \in Listed :
         st[t].pc = "raised" /\ st[t].sink # <<>> /\ ~st[t].committed

(***************************************************************************)
(* DataLoader: row accounting                                              *)
(***************************************************************************)
\* the batches of a returned table cover the cursor: they follow one another
\* from the first row to the last, each holding the rows of its positions,
\* so that every row of the cursor is in exactly one batch
CoversCursor(t) ==
    LET bs == st[t].batches IN
    /\ \A i \in DOMAIN bs :
          /\ bs[i].from = (IF i = 1 THEN 1 ELSE bs[i - 1].from + Len(bs[i - 1].rows))
          /\ \A k \in DOMAIN bs[i].rows :
                bs[i].rows[k] = CoerceRow(Cursor(t)[bs[i].from + k - 1], NCols(t))
    /\ IF bs = <<>> THEN Cursor(t) = <<>>
       ELSE bs[Len(bs)].from + Len(bs[Len(bs)].rows) - 1 = Len(Cursor(t))

\* the number of rows in the failed batches of a table
FailedRows(t) ==
    st[t].next - RowsIn(st[t].batches)

\* C25 as stated: no batch of a table that ended with status ok has more than
\* copy_batch_rows rows.  With copy_batch_rows below 1 every batch has one row.
C25_AsStated ==
    \A t \in Listed :
        st[t].pc = "returned" =>
            \A i \in DOMAIN st[t].batches : Len(st[t].batches[i].rows) <= cfg.batch

\* C25: for a table that ended with status ok, every row of the cursor is in
\* exactly one batch, every batch has at least one row and at most
\* copy_batch_rows rows (one row when copy_batch_rows is below 1), the
\* reported rows is the number of rows in the written batches, and rows plus
\* the rows of the failed batches is the number of rows of the cursor
C25_RowAccounting ==
    \A t \in Listed :
        st[t].pc = "returned" =>
            /\ CoversCursor(t)
            /\ \A i \in DOMAIN st[t].batches :
                  /\ Len(st[t].batches[i].rows) >= 1
                  /\ Len(st[t].batches[i].rows) <= Max(1, cfg.batch)
            /\ StatsOf(t).rows = RowsIn(st[t].batches)
            /\ StatsOf(t).rows + FailedRows(t) = Len(Cursor(t))
            /\ FailedRows(t) >= 0

\* a table of three rows loaded in batches of two returned with one batch
\* written and the other failed
C25_Witness ==
    \E t \in Listed :
        /\ st[t].pc = "returned" /\ cfg.batch = 2
        /\ Len(Cursor(t)) = 3 /\ Len(st[t].batches) = 2
        /\ StatsOf(t).failed_batches = 1
        /\ StatsOf(t).rows \in {1, 2}

(***************************************************************************)
(* DataLoader: quarantine file names                                       *)
(***************************************************************************)
\* C26: two failed batches of one table never get the same quarantine file
\* path, and when the table has returned every failed batch whose quarantine
\* could write is in the file of its path
C26_DistinctQuarantineFiles ==
    \A t \in Listed :
        LET bs == st[t].batches IN
        /\ \A i, j \in DOMAIN bs :
              (i < j /\ Failed(bs[i]) /\ Failed(bs[j])) => bs[i].path # bs[j].path
        /\ st[t].pc = "returned" =>
              \A i \in DOMAIN bs :
                  (bs[i].outcome = "WriteError" /\ bs[i].dirOk) =>
                      /\ bs[i].path \in DOMAIN files
                      /\ files[bs[i].path] = CsvText(bs[i].rows)

(***************************************************************************)
(* DataLoader: NULL in the COPY payload                                    *)
(***************************************************************************)
\* COPY ... WITH (FORMAT csv, NULL '\N') reads a field as NULL when it is
\* the unquoted text \N
ReadsAsNull(field) == field = NULL_SENTINEL

\* C27: in every row handed to the encoder, a value is written as a field
\* that COPY reads as NULL exactly when the value is NULL
C27_NullRoundTrip ==
    \A e \in encoded :
        \A k \in DOMAIN e.rows :
            \A j \in DOMAIN e.rows[k] :
                ReadsAsNull(CsvField(ToCsvField(e.rows[k][j]), Len(e.rows[k])))
                    <=> (e.rows[k][j] = PyNone)

(***************************************************************************)
(* migrate: the tables loaded and the tables created                       *)
(***************************************************************************)
\* C28: once migrate has handed the TableSpecs to the loader, the tables
\* they are made from are exactly the tables the plan has a CREATE TABLE for
C28_LoadedTablesAreCreated ==
    (mg # <<>> /\ mg.loaded) =>
        {mg.specs[i] : i \in DOMAIN mg.specs} = {mg.created[i] : i \in DOMAIN mg.created}

(***************************************************************************)
(* migrate: success and the validation report                              *)
(***************************************************************************)
\* C30: the run exits with status 0 only when validate_counts returned an
\* entry for every discovered table and every entry matches
C30_SuccessNeedsFullReport ==
    (mg # <<>> /\ mg.pc = "exited" /\ mg.exit = <<0>>) =>
        /\ mg.validated
        /\ Len(mg.counts) = Len(mg.tables)
        /\ \A k \in DOMAIN mg.counts : mg.counts[k]

(***************************************************************************)
(* migrate: the plan split into statements                                 *)
(***************************************************************************)
\* ddl_sql.split(";"): the pieces of the text between its semicolons
SplitOnSemicolon(text) ==
    LET semis == {i \in DOMAIN text : text[i] = ";"}
        n     == Cardinality(semis)
        At(k) == CHOOSE i \in semis : Cardinality({j \in semis : j < i}) = k - 1
    IN  [k \in 1..(n + 1) |->
            SubSeq(text, IF k = 1 THEN 1 ELSE At(k - 1) + 1,
                         IF k = n + 1 THEN Len(text) ELSE At(k) - 1)]

\* [s.strip() + ";" for s in ddl_sql.split(";") if s.strip()]
SplitStatements(text) ==
    LET pieces == SplitOnSemicolon(text)
        kept   == SelectSeq([k \in DOMAIN pieces |-> Strip(pieces[k])],
                            LAMBDA p : p # <<>>)
    IN  [k \in DOMAIN kept |-> kept[k] \o <<";">>]

\* C29: the statements migrate gets by splitting the returned plan are the
\* statements compose_plan joined, in the same order
C29_SplitGivesPlanStatements ==
    \A r \in Runs :
        plan[r].returned => SplitStatements(plan[r].text) = parts[r]
====
